---------------------------- MODULE Spec2Model ----------------------------
(***************************************************************************)
(* Jyotisa Compute API (src/main.py): the shared sidereal mode of the      *)
(* ephemeris under concurrently handled requests, the event-boundary       *)
(* root-finder, the Vimshottari period subdivision, the day segments, the  *)
(* ascendant cross-check, time normalization, the Karana table and the     *)
(* four Panchanga elements in floating point.                              *)
(*                                                                         *)
(* Time is counted in clock ticks (the resolution of datetime, one         *)
(* microsecond in the program); a timedelta division or a timedelta built  *)
(* from a fractional number of seconds rounds to the nearest tick, ties to *)
(* even, as datetime does.                                                 *)
(***************************************************************************)
EXTENDS Integers, Sequences, FiniteSets, TLC

VARIABLES
    \* ---- request handling over the process-wide sidereal mode
    sidMode,    \* swe.set_sid_mode's process-wide state
    pc,         \* each worker thread's position in its handler
    req,        \* the request each worker thread is handling
    calls,      \* sun_moon_sidereal_longitudes calls the handler still makes
    seen,       \* the sidereal modes under which the request's queries ran
    resp,       \* what the handler returned: "none", "ok" or "error"
    \* ---- find_event_end_time
    fin,        \* its arguments: start_utc, max_hours, step, refine, predicate
    fpc,        \* its position: "scan", "bisect" or "done"
    t,          \* the coarse scan's instant
    lo,         \* the bracket
    hi,
    \* ---- Vimshottari engine
    din,        \* birth instant, Moon longitude, horizon_years, levels
    dpc,        \* "start", "maha", "antar", "prati"
    maha,       \* vimshottari_maha_schedule_from_birth's list
    selM,       \* the Mahadasha being subdivided
    antars,     \* subdivide_antar's list for it
    selA,       \* the Antardasha being subdivided
    pratis,     \* subdivide_pratyantar's list for it
    \* ---- day segments
    sin,        \* sunrise, sunset and weekday
    spc,        \* "start" or "done"
    parts,      \* day_segments' list
    spans,      \* rahu_yama_gulika's three picks
    \* ---- calc_birth_chart's ascendant cross-check
    ain,        \* the request's validity and system, and the two ascendants
    apc,        \* "start" or "done"
    chart,      \* the returned payload
    \* ---- time normalization
    tin,        \* the time string, the date and the timezone
    tpc,        \* "parse", "build", "done" or "raised"
    parsed,     \* parse_time_24_or_ampm's triple
    utc,        \* local_to_utc's instant
    \* ---- karana_name_by_index
    kin,        \* the index
    kpc,        \* "start" or "done"
    kname,      \* the name returned, or KaranaRaises
    \* ---- calc_panchanga's four elements
    pin,        \* the ephemeris: Sun, Moon and the Moon's motion
    ppc,        \* the call being made, "payload", "done" or "raised"
    elems,      \* each element's index and end
    names       \* the names looked up for the payload

reqVars == <<sidMode, pc, req, calls, seen, resp>>

findVars == <<fin, fpc, t, lo, hi>>

dashaVars == <<din, dpc, maha, selM, antars, selA, pratis>>

segVars == <<sin, spc, parts, spans>>

ascVars == <<ain, apc, chart>>

timeVars == <<tin, tpc, parsed, utc>>

karVars == <<kin, kpc, kname>>

panVars == <<pin, ppc, elems, names>>

vars == <<reqVars, findVars, dashaVars, segVars, ascVars, timeVars, karVars, panVars>>

-----------------------------------------------------------------------------
(* Concurrently handled requests.  The endpoints are plain `def` handlers,  *)
(* which the framework runs on worker threads; a thread switch can happen   *)
(* between any two calls into the ephemeris, so each such call is a step.   *)

\* Worker threads handling requests at the same time.
NumWorkers == 2
Workers == 1..NumWorkers

Ayanamshas == {"Lahiri", "Raman", "Krishnamurti"}
Endpoints == {"calc_panchanga", "calc_birth_chart", "calc_dasha", "debug_birth"}
DashaMethods == {"Vimshottari", "Yogini", "CharA"}

\* calc_panchanga: four elements, each one index query and at least one
\* evaluation of its crossing predicate.
PanchangaMinCalls == 8
\* The most calls of sun_moon_sidereal_longitudes one calc_panchanga makes here.
MaxSunMoonCalls == 9
\* calc_birth_chart's planet_map has eight bodies.
NumPlanets == 8

NoRequest == [ep |-> "none", ayanamsha |-> "Lahiri", method |-> "Vimshottari",
              latlon_ok |-> TRUE, time_ok |-> TRUE]

Requests ==
    [ep : {"calc_panchanga"}, ayanamsha : Ayanamshas, method : {"Vimshottari"},
     latlon_ok : {TRUE}, time_ok : {TRUE}]
    \cup
    [ep : {"calc_birth_chart"}, ayanamsha : Ayanamshas, method : {"Vimshottari"},
     latlon_ok : BOOLEAN, time_ok : BOOLEAN]
    \cup
    \* DashaIn has no ayanamsha field: calc_dasha passes "Lahiri"
    [ep : {"calc_dasha"}, ayanamsha : {"Lahiri"}, method : DashaMethods,
     latlon_ok : {TRUE}, time_ok : {TRUE}]
    \cup
    [ep : {"debug_birth"}, ayanamsha : Ayanamshas, method : {"Vimshottari"},
     latlon_ok : {TRUE}, time_ok : BOOLEAN]

ReqInit ==
    /\ sidMode = "Lahiri"
    /\ pc = [w \in Workers |-> "idle"]
    /\ req = [w \in Workers |-> NoRequest]
    /\ calls = [w \in Workers |-> 0]
    /\ seen = [w \in Workers |-> {}]
    /\ resp = [w \in Workers |-> "none"]

\* The first position of each handler.
Entry(r) ==
    CASE r.ep = "calc_panchanga" -> "sm_set"
      [] r.ep = "calc_birth_chart" -> "bc_validate"
      [] r.ep = "calc_dasha" -> "da_method"
      [] r.ep = "debug_birth" -> "db_set"

\* A worker thread takes a request.
Receive(w) ==
    /\ pc[w] = "idle"
    /\ \E r \in Requests, n \in PanchangaMinCalls..MaxSunMoonCalls :
          /\ req' = [req EXCEPT ![w] = r]
          /\ calls' = [calls EXCEPT ![w] = IF r.ep = "calc_panchanga" THEN n ELSE 0]
          /\ pc' = [pc EXCEPT ![w] = Entry(r)]
    /\ seen' = [seen EXCEPT ![w] = {}]
    /\ resp' = [resp EXCEPT ![w] = "none"]
    /\ UNCHANGED sidMode

\* swe.set_sid_mode(mode, 0, 0)
set_sid_mode(w, at, next) ==
    /\ pc[w] = at
    /\ sidMode' = req[w].ayanamsha
    /\ pc' = [pc EXCEPT ![w] = next]
    /\ UNCHANGED <<req, calls, seen, resp>>

\* A query whose answer depends on the sidereal mode: swe.calc_ut with
\* FLG_SIDEREAL, swe.houses_ex with FLG_SIDEREAL, swe.get_ayanamsa_ut.
SiderealQuery(w, at, next) ==
    /\ pc[w] = at
    /\ seen' = [seen EXCEPT ![w] = @ \cup {sidMode}]
    /\ pc' = [pc EXCEPT ![w] = next]
    /\ UNCHANGED <<sidMode, req, calls, resp>>

\* A step that neither reads nor writes the sidereal mode.
LocalStep(w, at, next) ==
    /\ pc[w] = at
    /\ pc' = [pc EXCEPT ![w] = next]
    /\ UNCHANGED <<sidMode, req, calls, seen, resp>>

\* return {"error": ...}
ReturnError(w, at) ==
    /\ pc[w] = at
    /\ pc' = [pc EXCEPT ![w] = "done"]
    /\ resp' = [resp EXCEPT ![w] = "error"]
    /\ UNCHANGED <<sidMode, req, calls, seen>>

\* ---- sun_moon_sidereal_longitudes(dt_utc, ayanamsha)
SunMoonSet(w) == set_sid_mode(w, "sm_set", "sm_sun")

SunMoonSun(w) == SiderealQuery(w, "sm_sun", "sm_moon")

SunMoonMoon(w) ==
    /\ pc[w] = "sm_moon"
    /\ seen' = [seen EXCEPT ![w] = @ \cup {sidMode}]
    /\ calls' = [calls EXCEPT ![w] = @ - 1]
    /\ pc' = [pc EXCEPT ![w] = IF calls[w] > 1 THEN "sm_set" ELSE "return"]
    /\ UNCHANGED <<sidMode, req, resp>>

\* ---- calc_dasha
\* (the tree is built whatever the method)
DashaMethodCheck_Unchecked(w) ==
    /\ pc[w] = "da_method"
    /\ pc' = [pc EXCEPT ![w] = "sm_set"]
    /\ calls' = [calls EXCEPT ![w] = 1]
    /\ UNCHANGED <<sidMode, req, seen, resp>>

\* if inp.method != "Vimshottari": return {"error": ...}
DashaMethodCheck(w) ==
    /\ pc[w] = "da_method"
    /\ IF req[w].method # "Vimshottari"
         THEN /\ pc' = [pc EXCEPT ![w] = "done"]
              /\ resp' = [resp EXCEPT ![w] = "error"]
              /\ UNCHANGED calls
         ELSE \* vimshottari_tree -> moon_nakshatra_info: one sun_moon call
              /\ pc' = [pc EXCEPT ![w] = "sm_set"]
              /\ calls' = [calls EXCEPT ![w] = 1]
              /\ UNCHANGED resp
    /\ UNCHANGED <<sidMode, req, seen>>

\* ---- calc_birth_chart
BirthValidate(w) ==
    /\ pc[w] = "bc_validate"
    /\ IF req[w].latlon_ok
         THEN LocalStep(w, "bc_validate", "bc_set")
         ELSE ReturnError(w, "bc_validate")

BirthSet(w) == set_sid_mode(w, "bc_set", "bc_jd")

BirthJd(w) ==
    /\ pc[w] = "bc_jd"
    /\ IF req[w].time_ok
         THEN LocalStep(w, "bc_jd", "bc_asc1")
         ELSE ReturnError(w, "bc_jd")

BirthAscSidereal(w) == SiderealQuery(w, "bc_asc1", "bc_trop")

BirthAscTropical(w) == LocalStep(w, "bc_trop", "bc_ayan")

BirthAyanamsa(w) == SiderealQuery(w, "bc_ayan", "bc_planet")

BirthPlanet(w) ==
    /\ pc[w] = "bc_planet"
    /\ seen' = [seen EXCEPT ![w] = @ \cup {sidMode}]
    /\ calls' = [calls EXCEPT ![w] = IF @ + 1 = NumPlanets THEN 0 ELSE @ + 1]
    /\ pc' = [pc EXCEPT ![w] = IF calls[w] + 1 = NumPlanets THEN "return" ELSE "bc_planet"]
    /\ UNCHANGED <<sidMode, req, resp>>

\* ---- debug_birth
DebugSet(w) == set_sid_mode(w, "db_set", "db_time")

DebugTime(w) ==
    /\ pc[w] = "db_time"
    /\ IF req[w].time_ok
         THEN LocalStep(w, "db_time", "db_ayan")
         ELSE ReturnError(w, "db_time")

DebugAyanamsa(w) == SiderealQuery(w, "db_ayan", "db_asc1")

DebugAscSidereal(w) == SiderealQuery(w, "db_asc1", "db_trop")

DebugAscTropical(w) == LocalStep(w, "db_trop", "db_ayan2")

DebugAyanamsa2(w) == SiderealQuery(w, "db_ayan2", "db_node")

DebugNode(w) == SiderealQuery(w, "db_node", "return")

\* ---- return payload
ReturnPayload(w) ==
    /\ pc[w] = "return"
    /\ pc' = [pc EXCEPT ![w] = "done"]
    /\ resp' = [resp EXCEPT ![w] = "ok"]
    /\ UNCHANGED <<sidMode, req, calls, seen>>

\* The response is sent; the worker thread is free again.
Respond(w) ==
    /\ pc[w] = "done"
    /\ pc' = [pc EXCEPT ![w] = "idle"]
    /\ req' = [req EXCEPT ![w] = NoRequest]
    /\ seen' = [seen EXCEPT ![w] = {}]
    /\ resp' = [resp EXCEPT ![w] = "none"]
    /\ UNCHANGED <<sidMode, calls>>

ReqNext ==
    \E w \in Workers :
        \/ Receive(w)
        \/ SunMoonSet(w)
        \/ SunMoonSun(w)
        \/ SunMoonMoon(w)
        \/ DashaMethodCheck(w)
        \/ BirthValidate(w)
        \/ BirthSet(w)
        \/ BirthJd(w)
        \/ BirthAscSidereal(w)
        \/ BirthAscTropical(w)
        \/ BirthAyanamsa(w)
        \/ BirthPlanet(w)
        \/ DebugSet(w)
        \/ DebugTime(w)
        \/ DebugAyanamsa(w)
        \/ DebugAscSidereal(w)
        \/ DebugAscTropical(w)
        \/ DebugAyanamsa2(w)
        \/ DebugNode(w)
        \/ ReturnPayload(w)
        \/ Respond(w)

-----------------------------------------------------------------------------
(* timedelta arithmetic *)

\* n / d rounded to the nearest integer, ties to the even one: what
\* timedelta / int and timedelta(seconds = float) do to a fraction of a tick.
DivRoundHalfEven(n, d) ==
    LET q == n \div d
        r == n % d
    IN  IF 2 * r < d THEN q
        ELSE IF 2 * r > d THEN q + 1
        ELSE IF q % 2 = 0 THEN q ELSE q + 1

-----------------------------------------------------------------------------
(* Binary floating point.  The program computes angles in IEEE doubles: a   *)
(* significand of 53 bits, every result rounded to the nearest              *)
(* representable value, ties to the even significand.  The same arithmetic  *)
(* is kept here with a significand of Precision bits.  A float x is the     *)
(* integer x * FloatUnit: values below 2^Precision units are whole units    *)
(* (the format's smallest spacing), values of [2^e, 2^(e+1)) units are      *)
(* multiples of 2^(e+1-Precision) units.  Precision is odd, as 53 is, so    *)
(* that 360/27 rounds upward as it does in the program.                     *)

\* Bits of the significand.
Precision == 11

RECURSIVE Pow2(_)
Pow2(n) == IF n = 0 THEN 1 ELSE 2 * Pow2(n - 1)

\* Units in 1.0: the spacing of the floats of [2, 4) is one unit.
FloatUnit == Pow2(Precision - 2)

\* The spacing of the floats at magnitude v.
RECURSIVE Spacing(_)
Spacing(v) == IF v < Pow2(Precision) THEN 1 ELSE 2 * Spacing(v \div 2)

\* The float nearest to n / d units, n >= 0, d > 0.
Fl(n, d) ==
    LET s == Spacing(n \div d)
    IN  s * DivRoundHalfEven(n, d * s)

\* a * b, a / b and a + b for floats a, b >= 0.
FMul(a, b) == Fl(a * b, FloatUnit)

FDiv(a, b) == Fl(a * FloatUnit, b)

FAdd(a, b) == Fl(a + b, 1)

\* The float of a whole number.
FInt(k) == Fl(k * FloatUnit, 1)

\* 360.0
Circle360 == FInt(360)

\* math.floor(x) and int(x) of a float x >= 0
FFloor(x) == x \div FloatUnit

\* a // b for floats a >= 0, b > 0: the floor of the exact quotient
FFloorDiv(a, b) == a \div b

\* x % w for floats, w > 0: fmod is exact and has the sign of x; a negative
\* remainder then has w added to it, and that sum is rounded.
PyMod(x, w) ==
    IF x >= 0 THEN x % w
    ELSE IF (-x) % w = 0 THEN 0
    ELSE Fl(w - ((-x) % w), 1)

\* y = x % 360.0;  return y if y >= 0 else y + 360.0
norm360(x) ==
    LET y == PyMod(x, Circle360)
    IN  IF y >= 0 THEN y ELSE y + Circle360

SEG_27 == FDiv(FInt(360), FInt(27))

TITHI_DEG == FInt(12)

KARANA_DEG == FInt(6)

\* a - b for floats a, b >= 0
FSub(a, b) == IF a >= b THEN Fl(a - b, 1) ELSE -Fl(b - a, 1)

\* The largest float not above v.
GridFloor(v) == v - (v % Spacing(v))

-----------------------------------------------------------------------------
(* The Panchanga elements.  The ephemeris is given by the Sun's and the     *)
(* Moon's sidereal longitude at the reference instant and the Moon's        *)
(* motion per tick after it; the Sun stands still over the search.  A tick  *)
(* is the resolution of the search (refine_to_seconds); the Moon passes at  *)
(* least one float of every magnitude used here per tick, as it passes      *)
(* billions of doubles per second in the program.                           *)

\* refine_to_seconds, coarse_step_min and max_hours, in ticks.
PanRefine == 1
PanStep == 4
PanHorizon == 52

\* The Moon's motion in units per tick: about 13 degrees in a day.
MoonRates == {FloatUnit \div 2, (5 * FloatUnit) \div 8}

Elements == {"tithi", "nakshatra", "yoga", "karana"}

\* swe.calc_ut(jd, swe.SUN, flag)[0] and swe.calc_ut(jd, swe.MOON, flag)[0]
\* at x ticks after the reference instant: floats of [0, 360).
SunAt(eph, x) == eph.sun

MoonAt(eph, x) == GridFloor((eph.moon + eph.rate * x) % Circle360)

\* return norm360(sun[0]), norm360(moon[0])
sun_moon_sidereal_longitudes(eph, x) ==
    [s |-> norm360(SunAt(eph, x)), m |-> norm360(MoonAt(eph, x))]

\* delta = norm360(m - s);  m;  y = norm360(s + m);  delta = norm360(m - s)
Quantity(elem, sm) ==
    CASE elem = "tithi" -> norm360(FSub(sm.m, sm.s))
      [] elem = "nakshatra" -> sm.m
      [] elem = "yoga" -> norm360(FAdd(sm.s, sm.m))
      [] elem = "karana" -> norm360(FSub(sm.m, sm.s))

Sector(elem) ==
    CASE elem = "tithi" -> TITHI_DEG
      [] elem = "nakshatra" -> SEG_27
      [] elem = "yoga" -> SEG_27
      [] elem = "karana" -> KARANA_DEG

\* idx = int(q // sector) + 1
ElemIndex(elem, q) == FFloorDiv(q, Sector(elem)) + 1

\* target = ((idx) * TITHI_DEG) % 360.0
\* target = ((math.floor(q / sector) + 1) * sector) % 360.0
ElemTarget(elem, q) ==
    LET k == IF elem = "tithi" THEN ElemIndex(elem, q)
             ELSE FFloor(FDiv(q, Sector(elem))) + 1
    IN  PyMod(FMul(FInt(k), Sector(elem)), Circle360)

\* def crosses(t): ... return q2 < sector if target == 0 else q2 >= target
crosses(P, x) ==
    LET q2 == Quantity(P.elem, sun_moon_sidereal_longitudes(P.eph, x))
    IN  IF P.target = 0 THEN q2 < Sector(P.elem) ELSE q2 >= P.target

-----------------------------------------------------------------------------
(* find_event_end_time(start_utc, predicate_crosses, max_hours,             *)
(* coarse_step_min, refine_to_seconds).  A predicate is given by the        *)
(* instants at which it is true: those of [a, b) and those from c on, so    *)
(* a = b makes it false-then-true with its crossing at c, and c = Never     *)
(* with a = b makes it never true.                                          *)

\* Bounds of the arguments, in ticks.
MaxStart == 1
MaxHorizon == 8
MaxStep == 4
MaxRefine == 3

\* Later than every instant the search looks at.
Never == MaxStart + MaxHorizon + MaxStep + 2

Predicates(start, last) ==
    {[a |-> start, b |-> start, c |-> c] : c \in (start..last) \cup {Never}}
    \cup
    {[a |-> a, b |-> b, c |-> c] : a \in start..last, b \in start..last,
                                   c \in (start..last) \cup {Never}}

FindInputs ==
    {f \in [start_utc : 0..MaxStart, max_hours : 0..MaxHorizon, step : 1..MaxStep,
            refine : 1..MaxRefine,
            P : Predicates(0, MaxStart + MaxHorizon + MaxStep)] :
        /\ f.P.a >= f.start_utc
        /\ f.P.c >= f.start_utc
        /\ \/ f.P.a = f.P.b /\ f.P.a = f.start_utc
           \/ f.P.a < f.P.b /\ f.P.b < f.P.c
        /\ f.P.c <= f.start_utc + f.max_hours + f.step \/ f.P.c = Never}

\* An element's closure, or a predicate given by its instants.
predicate_crosses(P, x) ==
    IF "elem" \in DOMAIN P THEN crosses(P, x)
    ELSE (P.a <= x /\ x < P.b) \/ x >= P.c

\* end = start_utc + timedelta(hours=max_hours)
HorizonEnd(f) == f.start_utc + f.max_hours

\* while t <= end and not predicate_crosses(t)
ScanContinues(f, x) == x <= HorizonEnd(f) /\ ~predicate_crosses(f.P, x)

\* lo, hi = t - step, t; if lo < start_utc: lo = start_utc
BracketLo(f, x) == IF x - f.step < f.start_utc THEN f.start_utc ELSE x - f.step

\* (the loop tested against the coarse step instead of the resolution)
BisectContinues_CoarseStep(f, l, h) == h - l > f.step

\* while (hi - lo).total_seconds() > refine_to_seconds
BisectContinues(f, l, h) == h - l > f.refine

\* (a midpoint that never leaves the lower end)
Mid_AtLo(l, h) == l + (h - l) \div (h - l + 1)

\* mid = lo + (hi - lo) / 2
Mid(l, h) == l + DivRoundHalfEven(h - l, 2)

\* if predicate_crosses(mid): hi = mid  else: lo = mid
BisectLo(f, l, h) == IF predicate_crosses(f.P, Mid(l, h)) THEN l ELSE Mid(l, h)

\* (the upper end moved to the midpoint whatever the predicate says)
BisectHi_Unconditional(f, l, h) == Mid(l, h)

BisectHi(f, l, h) == IF predicate_crosses(f.P, Mid(l, h)) THEN Mid(l, h) ELSE h

FindIdle ==
    /\ fin = [start_utc |-> 0, max_hours |-> 0, step |-> 1, refine |-> 1,
              P |-> [a |-> 0, b |-> 0, c |-> 0]]
    /\ fpc = "idle"
    /\ t = 0
    /\ lo = 0
    /\ hi = 0

\* t = start_utc
FindInit ==
    /\ fin \in FindInputs
    /\ fpc = "scan"
    /\ t = fin.start_utc
    /\ lo = fin.start_utc
    /\ hi = fin.start_utc

\* t += step
ScanStep ==
    /\ fpc = "scan"
    /\ ScanContinues(fin, t)
    /\ t' = t + fin.step
    /\ UNCHANGED <<fin, fpc, lo, hi>>
    /\ UNCHANGED <<reqVars, dashaVars, segVars, ascVars, timeVars, karVars, panVars>>

ScanExit ==
    /\ fpc = "scan"
    /\ ~ScanContinues(fin, t)
    /\ lo' = BracketLo(fin, t)
    /\ hi' = t
    /\ fpc' = "bisect"
    /\ UNCHANGED <<fin, t>>
    /\ UNCHANGED <<reqVars, dashaVars, segVars, ascVars, timeVars, karVars, panVars>>

BisectStep ==
    /\ fpc = "bisect"
    /\ BisectContinues(fin, lo, hi)
    /\ lo' = BisectLo(fin, lo, hi)
    /\ hi' = BisectHi(fin, lo, hi)
    /\ UNCHANGED <<fin, fpc, t>>
    /\ UNCHANGED <<reqVars, dashaVars, segVars, ascVars, timeVars, karVars, panVars>>

\* return hi
FindReturn ==
    /\ fpc = "bisect"
    /\ ~BisectContinues(fin, lo, hi)
    /\ fpc' = "done"
    /\ UNCHANGED <<fin, t, lo, hi>>
    /\ UNCHANGED <<reqVars, dashaVars, segVars, ascVars, timeVars, karVars, panVars>>

FindNext ==
    \/ ScanStep
    \/ ScanExit
    \/ BisectStep
    \/ FindReturn

\* Executions of the coarse loop's body so far.
NScan == (t - fin.start_utc) \div fin.step

\* The whole call as a function of its arguments.
RECURSIVE ScanFrom(_, _)
ScanFrom(f, x) == IF ScanContinues(f, x) THEN ScanFrom(f, x + f.step) ELSE x

RECURSIVE BisectFrom(_, _, _)
BisectFrom(f, l, h) ==
    IF BisectContinues(f, l, h)
      THEN BisectFrom(f, BisectLo(f, l, h), BisectHi(f, l, h))
      ELSE h

find_event_end_time(f) ==
    LET x == ScanFrom(f, f.start_utc)
    IN  BisectFrom(f, BracketLo(f, x), x)

-----------------------------------------------------------------------------
(* Vimshottari engine.  A year is YearTicks ticks (DAYS_PER_YEAR days); the  *)
(* Moon's longitude is counted in steps of 1/FracDen of a nakshatra, so a    *)
(* number of years is kept as a multiple of 1/FracDen year.                  *)

DASHA_ORDER_9 ==
    <<"Ketu", "Venus", "Sun", "Moon", "Mars", "Rahu", "Jupiter", "Saturn", "Mercury">>

DASHA_YEARS ==
    ("Ketu" :> 7) @@ ("Venus" :> 20) @@ ("Sun" :> 6) @@ ("Moon" :> 10) @@ ("Mars" :> 7)
    @@ ("Rahu" :> 18) @@ ("Jupiter" :> 16) @@ ("Saturn" :> 19) @@ ("Mercury" :> 17)

\* Ticks in one year of DAYS_PER_YEAR days.
YearTicks == 300
\* Steps of Moon longitude in one nakshatra.
FracDen == 1500
\* Moon positions taken next to each end of a nakshatra.
MaxFracEdge == 2
\* Birth instants.
MaxBirth == 1
\* The horizon calc_dasha passes.
DefaultHorizon == 120
\* Other horizons configured.
HorizonChoices == {1, 30, DefaultHorizon}

NumNakshatras == 27

FracChoices ==
    (0..MaxFracEdge) \cup {FracDen \div 2} \cup ((FracDen - MaxFracEdge)..(FracDen - 1))

DashaInputs ==
    [birth : 0..MaxBirth,
     moon : {n * FracDen + k : n \in 0..(NumNakshatras - 1), k \in FracChoices},
     horizon_years : HorizonChoices,
     levels : 1..3]

\* moon_nakshatra_info: idx = int(m // span) + 1, frac = (m % span) / span
NakIdx(m) == m \div FracDen + 1

\* the numerator of frac, over FracDen
FracElapsed(m) == m % FracDen

\* DASHA_ORDER_9.index(lord), from 1
LordIndex(lord) == CHOOSE i \in 1..9 : DASHA_ORDER_9[i] = lord

lord_of_nakshatra(nak_idx) == DASHA_ORDER_9[((nak_idx - 1) % 9) + 1]

\* DASHA_ORDER_9[i:] + DASHA_ORDER_9[:i]
cycle_from_lord(start_lord) ==
    [j \in 1..9 |-> DASHA_ORDER_9[((LordIndex(start_lord) - 1 + j - 1) % 9) + 1]]

\* dt + timedelta(days = years * DAYS_PER_YEAR), years = num / FracDen
add_years(dt, num) == dt + DivRoundHalfEven(num * YearTicks, FracDen)

RECURSIVE Repeat(_, _)
Repeat(seq, n) == IF n = 0 THEN <<>> ELSE seq \o Repeat(seq, n - 1)

\* order[1:] + order * 12
LoopLords(order) == Tail(order) \o Repeat(order, 12)

Period(lord, start, end) == [period |-> lord, start |-> start, end |-> end]

\* The for loop of vimshottari_maha_schedule_from_birth; total and horizon
\* are in 1/FracDen years.
RECURSIVE MahaLoop(_, _, _, _, _)
MahaLoop(out, at, total, rest, horizon) ==
    IF rest = <<>> THEN out
    ELSE LET lord == Head(rest)
             yrs == DASHA_YEARS[lord] * FracDen
         IN  IF total + yrs > horizon
               THEN Append(out, Period(lord, at,
                        add_years(at, IF horizon - total > 0 THEN horizon - total ELSE 0)))
               ELSE LET end == add_years(at, yrs)
                        out2 == Append(out, Period(lord, at, end))
                    IN  IF total + yrs >= horizon THEN out2
                        ELSE MahaLoop(out2, end, total + yrs, Tail(rest), horizon)

\* (the elapsed part of the period taken for its balance)
Remaining_Elapsed(start_lord, moon) == DASHA_YEARS[start_lord] * FracElapsed(moon)

\* remaining = full * (1.0 - frac_elapsed), in 1/FracDen years
Remaining(start_lord, moon) == DASHA_YEARS[start_lord] * (FracDen - FracElapsed(moon))

vimshottari_maha_schedule_from_birth(birth, moon, horizon_years) ==
    LET start_lord == lord_of_nakshatra(NakIdx(moon))
        order == cycle_from_lord(start_lord)
        remaining == Remaining(start_lord, moon)
        end == add_years(birth, remaining)
    IN  MahaLoop(<<Period(start_lord, birth, end)>>, end, remaining,
                 LoopLords(order), horizon_years * FracDen)

\* dur = timedelta(seconds = total * DASHA_YEARS[sub] / 120.0)
SubDuration(total, sub) == DivRoundHalfEven(total * DASHA_YEARS[sub], 120)

\* The for loop of subdivide_antar and subdivide_pratyantar.
RECURSIVE SubLoop(_, _, _, _)
SubLoop(out, at, rest, total) ==
    IF rest = <<>> THEN out
    ELSE LET end == at + SubDuration(total, Head(rest))
         IN  SubLoop(Append(out, Period(Head(rest), at, end)), end, Tail(rest), total)

\* out[-1]["end"] = parent_end
ForceLastEnd(out, parent_end) == [out EXCEPT ![Len(out)].end = parent_end]

subdivide_antar(parent_start, parent_end, maha_lord) ==
    ForceLastEnd(SubLoop(<<>>, parent_start, cycle_from_lord(maha_lord),
                         parent_end - parent_start), parent_end)

subdivide_pratyantar(antar_start, antar_end, antar_lord) ==
    ForceLastEnd(SubLoop(<<>>, antar_start, cycle_from_lord(antar_lord),
                         antar_end - antar_start), antar_end)

DashaIdle ==
    /\ din = [birth |-> 0, moon |-> 0, horizon_years |-> DefaultHorizon, levels |-> 1]
    /\ dpc = "idle"
    /\ maha = <<>>
    /\ selM = 0
    /\ antars = <<>>
    /\ selA = 0
    /\ pratis = <<>>

DashaInit ==
    /\ din \in DashaInputs
    /\ dpc = "start"
    /\ maha = <<>>
    /\ selM = 0
    /\ antars = <<>>
    /\ selA = 0
    /\ pratis = <<>>

\* vimshottari_tree: maha = vimshottari_maha_schedule_from_birth(...)
MahaSchedule ==
    /\ dpc = "start"
    /\ maha' = vimshottari_maha_schedule_from_birth(din.birth, din.moon, din.horizon_years)
    /\ dpc' = "maha"
    /\ UNCHANGED <<din, selM, antars, selA, pratis>>
    /\ UNCHANGED <<reqVars, findVars, segVars, ascVars, timeVars, karVars, panVars>>

\* vimshottari_tree: antars = subdivide_antar(m["start"], m["end"], m["period"])
SubdivideAntar ==
    /\ dpc = "maha"
    /\ din.levels >= 2
    /\ \E i \in 1..Len(maha) :
          /\ selM' = i
          /\ antars' = subdivide_antar(maha[i].start, maha[i].end, maha[i].period)
    /\ dpc' = "antar"
    /\ UNCHANGED <<din, maha, selA, pratis>>
    /\ UNCHANGED <<reqVars, findVars, segVars, ascVars, timeVars, karVars, panVars>>

\* vimshottari_tree: pratis = subdivide_pratyantar(a["start"], a["end"], a["period"])
SubdividePratyantar ==
    /\ dpc = "antar"
    /\ din.levels >= 3
    /\ \E j \in 1..Len(antars) :
          /\ selA' = j
          /\ pratis' = subdivide_pratyantar(antars[j].start, antars[j].end, antars[j].period)
    /\ dpc' = "prati"
    /\ UNCHANGED <<din, maha, selM, antars>>
    /\ UNCHANGED <<reqVars, findVars, segVars, ascVars, timeVars, karVars, panVars>>

DashaNext ==
    \/ MahaSchedule
    \/ SubdivideAntar
    \/ SubdividePratyantar

-----------------------------------------------------------------------------
(* day_segments and rahu_yama_gulika *)

\* Bounds of sunrise and of the daylight duration, in ticks.
MaxSunrise == 2
MaxDaylight == 20

Weekdays ==
    {"Sunday", "Monday", "Tuesday", "Wednesday", "Thursday", "Friday", "Saturday"}

RAHU_IDX ==
    ("Sunday" :> 8) @@ ("Monday" :> 2) @@ ("Tuesday" :> 7) @@ ("Wednesday" :> 5)
    @@ ("Thursday" :> 6) @@ ("Friday" :> 4) @@ ("Saturday" :> 3)

YAMA_IDX ==
    ("Sunday" :> 5) @@ ("Monday" :> 3) @@ ("Tuesday" :> 6) @@ ("Wednesday" :> 2)
    @@ ("Thursday" :> 7) @@ ("Friday" :> 5) @@ ("Saturday" :> 4)

GULI_IDX ==
    ("Sunday" :> 7) @@ ("Monday" :> 6) @@ ("Tuesday" :> 5) @@ ("Wednesday" :> 4)
    @@ ("Thursday" :> 3) @@ ("Friday" :> 2) @@ ("Saturday" :> 1)

SegInputs ==
    {i \in [sunrise : 0..MaxSunrise, sunset : 1..(MaxSunrise + MaxDaylight),
            weekday : Weekdays] :
        i.sunrise < i.sunset /\ i.sunset - i.sunrise <= MaxDaylight}

\* (the eighth taken by integer division)
SegLength_Floor(start, end) == (end - start) \div 8

\* seg = (end - start) / 8
SegLength(start, end) == DivRoundHalfEven(end - start, 8)

\* [(start + i*seg, start + (i+1)*seg) for i in range(8)]
day_segments(start, end) ==
    [i \in 1..8 |-> [start |-> start + (i - 1) * SegLength(start, end),
                     end |-> start + i * SegLength(start, end)]]

\* pick(idx): parts[idx - 1], lists counted from 0 there and from 1 here
rahu_yama_gulika(sunrise, sunset, weekday) ==
    LET p == day_segments(sunrise, sunset)
    IN  [rahukalam |-> p[RAHU_IDX[weekday]],
         yamagandam |-> p[YAMA_IDX[weekday]],
         gulika |-> p[GULI_IDX[weekday]]]

NoSpan == [start |-> 0, end |-> 0]

SegIdle ==
    /\ sin = [sunrise |-> 0, sunset |-> 1, weekday |-> "Sunday"]
    /\ spc = "idle"
    /\ parts = <<>>
    /\ spans = [rahukalam |-> NoSpan, yamagandam |-> NoSpan, gulika |-> NoSpan]

SegInit ==
    /\ sin \in SegInputs
    /\ spc = "start"
    /\ parts = <<>>
    /\ spans = [rahukalam |-> NoSpan, yamagandam |-> NoSpan, gulika |-> NoSpan]

DaySegments ==
    /\ spc = "start"
    /\ parts' = day_segments(sin.sunrise, sin.sunset)
    /\ spans' = rahu_yama_gulika(sin.sunrise, sin.sunset, sin.weekday)
    /\ spc' = "done"
    /\ UNCHANGED sin
    /\ UNCHANGED <<reqVars, findVars, dashaVars, ascVars, timeVars, karVars, panVars>>

SegNext == DaySegments

-----------------------------------------------------------------------------
(* calc_birth_chart: the ascendant cross-check and the lagna it reports.     *)
(* Angles are counted in units of 0.00001 degree.                            *)

\* Units in one degree.
DegUnits == 100000
\* 360, 180, 540 and 0.1 degrees.
Circle == 360 * DegUnits
HalfCircle == 180 * DegUnits
Tolerance == DegUnits \div 10

\* How far around each chosen difference the inputs go, in units.
MaxFine == 6

AscPoints ==
    {0, 1, 2000, 30 * DegUnits, HalfCircle, Circle - 3000, Circle - 1}

AscDiffs ==
    LET near(c) == (c - MaxFine)..(c + MaxFine)
    IN  (0..MaxFine) \cup near(Tolerance) \cup near(Tolerance \div 2)
        \cup near(HalfCircle) \cup {90 * DegUnits}

AscInputs ==
    {i \in [latlon_ok : BOOLEAN, time_ok : BOOLEAN,
            system : {"vedic", "lal_kitab", "both"},
            asc_sid_1 : AscPoints,
            asc_sid_2 : {(a + sg * d) % Circle : a \in AscPoints, d \in AscDiffs,
                                                 sg \in {-1, 1}},
            tie_up : BOOLEAN] :
        \E d \in AscDiffs, sg \in {-1, 1} :
            i.asc_sid_2 = (i.asc_sid_1 + sg * d) % Circle}

Abs(x) == IF x < 0 THEN -x ELSE x

\* (the naive difference, without the wraparound)
AscDelta_Naive(a1, a2) == Abs(a1 - a2)

\* asc_delta = abs((asc_sid_1 - asc_sid_2 + 540) % 360 - 180)
AscDelta(a1, a2) == Abs(((a1 - a2 + Circle + HalfCircle) % Circle) - HalfCircle)

\* round(x, ndigits) for a step of q units: the nearest multiple of q; a
\* value halfway goes up or down with the binary representation of the
\* float, which tie_up stands for.
RoundTo(x, q, tie_up) ==
    LET f == x \div q
        r == x % q
    IN  IF 2 * r < q THEN q * f
        ELSE IF 2 * r > q THEN q * (f + 1)
        ELSE IF tie_up THEN q * (f + 1) ELSE q * f

\* Units in 0.0001 degree.
Step4 == DegUnits \div 10000

\* round(asc_delta, 4)
Round4(x, tie_up) == RoundTo(x, Step4, tie_up)

\* round(asc_sid, 6): a step of 0.000001 degree is below the unit of angle
\* here, so every angle of the model is already a multiple of it.
Round6(x, tie_up) == RoundTo(x, 1, tie_up)

\* asc_sid = asc_sid_1 if asc_delta <= 0.1 else asc_sid_2
AscChosen(a1, a2) == IF AscDelta(a1, a2) <= Tolerance THEN a1 ELSE a2

\* method_used = "sidereal_flag" if asc_delta <= 0.1 else "tropical_minus_ayanamsha"
MethodUsed(a1, a2) ==
    IF AscDelta(a1, a2) <= Tolerance THEN "sidereal_flag" ELSE "tropical_minus_ayanamsha"

\* sign_index(lon_deg) = int(lon_deg // 30) + 1
sign_index(lon) == lon \div (30 * DegUnits) + 1

\* base["lagna"]
Lagna(i) ==
    [sign_idx |-> sign_index(AscChosen(i.asc_sid_1, i.asc_sid_2)),
     lon |-> Round6(AscChosen(i.asc_sid_1, i.asc_sid_2), i.tie_up),
     method |-> MethodUsed(i.asc_sid_1, i.asc_sid_2),
     crosscheck_delta_deg |-> Round4(AscDelta(i.asc_sid_1, i.asc_sid_2), i.tie_up)]

NoChart == [kind |-> "none"]

AscIdle ==
    /\ ain = [latlon_ok |-> TRUE, time_ok |-> TRUE, system |-> "vedic",
              asc_sid_1 |-> 0, asc_sid_2 |-> 0, tie_up |-> FALSE]
    /\ apc = "idle"
    /\ chart = NoChart

AscInit ==
    /\ ain \in AscInputs
    /\ apc = "start"
    /\ chart = NoChart

\* calc_birth_chart, from the request to the returned payload.
CalcBirthChart ==
    /\ apc = "start"
    /\ chart' = IF ~ain.latlon_ok \/ ~ain.time_ok
                  THEN [kind |-> "error"]
                  ELSE [kind |-> "ok", system |-> ain.system, lagna |-> Lagna(ain)]
    /\ apc' = "done"
    /\ UNCHANGED ain
    /\ UNCHANGED <<reqVars, findVars, dashaVars, segVars, timeVars, karVars, panVars>>

AscNext == CalcBirthChart

-----------------------------------------------------------------------------
(* Time normalization: parse_time_24_or_ampm and local_to_utc.  A time      *)
(* string is given by what the regular expression and split(":") make of    *)
(* it: "ampm" matches _AMPM_RE (one or two hour digits, two minute digits,  *)
(* optional two second digits, a meridiem marker in any letter case);       *)
(* "plain" does not match and splits at ":" into nparts decimal integers;   *)
(* "other" does not match and has a part that int() rejects.                *)

\* The largest hour field tried.
MaxHourField == 25
\* Minute and second fields tried: two decimal digits.
SixtyFields == {0, 20, 59, 60}
\* Days after the first date tried.
MaxDay == 1
\* UTC offsets of the timezones tried, in seconds.
TzOffsets == {-18000, 0, 19800}

Markers == {"AM", "am", "Am", "PM", "pm", "pM"}

TimeStrings ==
    {s \in [form : {"ampm"}, hh : 0..MaxHourField, mm : SixtyFields,
            has_ss : BOOLEAN, ss : SixtyFields, marker : Markers, nparts : {0}] :
        ~s.has_ss => s.ss = 0}
    \cup
    {s \in [form : {"plain"}, hh : 0..MaxHourField, mm : SixtyFields,
            has_ss : BOOLEAN, ss : SixtyFields, marker : {""}, nparts : 1..4] :
        /\ s.has_ss <=> s.nparts >= 3
        /\ ~s.has_ss => s.ss = 0}
    \cup
    [form : {"other"}, hh : {0}, mm : {0}, has_ss : {FALSE}, ss : {0},
     marker : {""}, nparts : {0}]

TimeInputs == [tob : TimeStrings, day : 0..MaxDay, tz : TzOffsets]

\* ampm.upper()
Upper(marker) ==
    CASE marker \in {"AM", "am", "Am"} -> "AM"
      [] marker \in {"PM", "pm", "pM"} -> "PM"
      [] OTHER -> marker

\* ss = int(ss) if ss else 0;  int(parts[2]) if len(parts) == 3 else 0
SecondsOrZero(s) == IF s.has_ss THEN s.ss ELSE 0

\* (12 is left as it is)
MeridiemHour_TwelveKept(hh, marker) ==
    IF Upper(marker) = "PM" THEN hh + 12 ELSE hh

\* if hh == 12: hh = 0
\* if ampm.upper() == "PM": hh += 12
MeridiemHour(hh, marker) ==
    LET h0 == IF hh = 12 THEN 0 ELSE hh
    IN  IF Upper(marker) = "PM" THEN h0 + 12 ELSE h0

ValueError == [ok |-> FALSE, hh |-> 0, mm |-> 0, ss |-> 0]

Triple(hh, mm, ss) == [ok |-> TRUE, hh |-> hh, mm |-> mm, ss |-> ss]

parse_time_24_or_ampm(s) ==
    IF s.form = "ampm"
      THEN Triple(MeridiemHour(s.hh, s.marker), s.mm, SecondsOrZero(s))
    ELSE IF s.form = "other" \/ s.nparts \notin {2, 3}
      THEN ValueError
    ELSE IF ~(0 <= s.hh /\ s.hh < 24 /\ 0 <= s.mm /\ s.mm < 60
              /\ 0 <= SecondsOrZero(s) /\ SecondsOrZero(s) < 60)
      THEN ValueError
    ELSE Triple(s.hh, s.mm, SecondsOrZero(s))

\* datetime(y, m, d, hh, mm, ss, ...) raises ValueError for a field out of range
DatetimeAccepts(p) ==
    /\ 0 <= p.hh /\ p.hh < 24
    /\ 0 <= p.mm /\ p.mm < 60
    /\ 0 <= p.ss /\ p.ss < 60

NoInstant == [ok |-> FALSE, at |-> 0]

\* local_dt.astimezone(ZoneInfo("UTC")), in seconds
Instant(day, p, tz) ==
    [ok |-> TRUE, at |-> day * 86400 + p.hh * 3600 + p.mm * 60 + p.ss - tz]

local_to_utc(i) ==
    LET p == parse_time_24_or_ampm(i.tob)
    IN  IF p.ok /\ DatetimeAccepts(p) THEN Instant(i.day, p, i.tz) ELSE NoInstant

TimeIdle ==
    /\ tin = [tob |-> [form |-> "other", hh |-> 0, mm |-> 0, has_ss |-> FALSE,
                       ss |-> 0, marker |-> "", nparts |-> 0],
              day |-> 0, tz |-> 0]
    /\ tpc = "idle"
    /\ parsed = ValueError
    /\ utc = NoInstant

TimeInit ==
    /\ tin \in TimeInputs
    /\ tpc = "parse"
    /\ parsed = ValueError
    /\ utc = NoInstant

\* hh, mm, ss = parse_time_24_or_ampm(tob_str)
ParseTime ==
    /\ tpc = "parse"
    /\ parsed' = parse_time_24_or_ampm(tin.tob)
    /\ tpc' = IF parse_time_24_or_ampm(tin.tob).ok THEN "build" ELSE "raised"
    /\ UNCHANGED <<tin, utc>>
    /\ UNCHANGED <<reqVars, findVars, dashaVars, segVars, ascVars, karVars, panVars>>

\* local_dt = datetime(...); return local_dt.astimezone(ZoneInfo("UTC"))
LocalToUtc ==
    /\ tpc = "build"
    /\ utc' = local_to_utc(tin)
    /\ tpc' = IF DatetimeAccepts(parsed) THEN "done" ELSE "raised"
    /\ UNCHANGED <<tin, parsed>>
    /\ UNCHANGED <<reqVars, findVars, dashaVars, segVars, ascVars, karVars, panVars>>

TimeNext ==
    \/ ParseTime
    \/ LocalToUtc

-----------------------------------------------------------------------------
(* karana_name_by_index *)

KARANA_MOVABLE ==
    <<"Bava", "Balava", "Kaulava", "Taitila", "Garaja", "Vanija", "Vishti">>

KARANA_FIXED_END == <<"Shakuni", "Chatushpada", "Naga">>

KARANA_FIRST == "Kimstughna"

\* How far outside 1..60 the indices tried go.
KaranaMargin == 3

KaranaIndices == (1 - KaranaMargin)..(60 + KaranaMargin)

\* raise ValueError("karana index 1..60 required")
KaranaRaises == "ValueError"

\* (the movable block counted from index 1)
MovableSlot_FromOne(idx) == (idx - 1) % 7

\* (idx - 2) % 7
MovableSlot(idx) == (idx - 2) % 7

karana_name_by_index(idx) ==
    IF idx = 1 THEN KARANA_FIRST
    ELSE IF 2 <= idx /\ idx <= 57 THEN KARANA_MOVABLE[MovableSlot(idx) + 1]
    ELSE IF 58 <= idx /\ idx <= 60 THEN KARANA_FIXED_END[idx - 58 + 1]
    ELSE KaranaRaises

KarIdle ==
    /\ kin = 0
    /\ kpc = "idle"
    /\ kname = ""

KarInit ==
    /\ kin \in KaranaIndices
    /\ kpc = "start"
    /\ kname = ""

KaranaName ==
    /\ kpc = "start"
    /\ kname' = karana_name_by_index(kin)
    /\ kpc' = "done"
    /\ UNCHANGED kin
    /\ UNCHANGED <<reqVars, findVars, dashaVars, segVars, ascVars, timeVars, panVars>>

KarNext == KaranaName

-----------------------------------------------------------------------------
(* calc_panchanga: the four elements at sunrise and their names. *)

TITHI_NAMES ==
    <<"Shukla Pratipada", "Shukla Dwitiya", "Shukla Tritiya", "Shukla Chaturthi",
      "Shukla Panchami", "Shukla Shashti", "Shukla Saptami", "Shukla Ashtami",
      "Shukla Navami", "Shukla Dashami", "Shukla Ekadashi", "Shukla Dwadashi",
      "Shukla Trayodashi", "Shukla Chaturdashi", "Purnima",
      "Krishna Pratipada", "Krishna Dwitiya", "Krishna Tritiya", "Krishna Chaturthi",
      "Krishna Panchami", "Krishna Shashti", "Krishna Saptami", "Krishna Ashtami",
      "Krishna Navami", "Krishna Dashami", "Krishna Ekadashi", "Krishna Dwadashi",
      "Krishna Trayodashi", "Krishna Chaturdashi", "Amavasya">>

NAK_NAMES ==
    <<"Ashwini", "Bharani", "Krittika", "Rohini", "Mrigashira", "Ardra",
      "Punarvasu", "Pushya", "Ashlesha", "Magha", "Purva Phalguni",
      "Uttara Phalguni", "Hasta", "Chitra", "Swati", "Vishakha", "Anuradha",
      "Jyeshtha", "Mula", "Purva Ashadha", "Uttara Ashadha", "Shravana",
      "Dhanishtha", "Shatabhisha", "Purva Bhadrapada", "Uttara Bhadrapada",
      "Revati">>

YOGA_NAMES ==
    <<"Vishkambha", "Preeti", "Ayushman", "Saubhagya", "Shobhana", "Atiganda",
      "Sukarma", "Dhriti", "Shoola", "Ganda", "Vriddhi", "Dhruva", "Vyaghata",
      "Harshana", "Vajra", "Siddhi", "Vyatipat", "Variyan", "Parigha", "Shiva",
      "Siddha", "Sadhya", "Shubha", "Shukla", "Brahma", "Indra", "Vaidhriti">>

\* Longitudes about which the inputs lie: sector boundaries and the seam.
Anchors ==
    {0, FInt(40), FInt(100), FMul(FInt(2), SEG_27), FMul(FInt(26), SEG_27),
     FInt(348), FInt(354)}

\* How far from an anchor, in units.
Offsets == {-(20 * FloatUnit), -(5 * FloatUnit), -1, 0, 1, FloatUnit}

PanPoints ==
    {GridFloor((c + d + Circle360) % Circle360) : c \in Anchors, d \in Offsets}

SunPoints == {0, 1, FInt(100), FInt(100) + Spacing(FInt(100)), FInt(353)}

Ephemerides == [sun : SunPoints, moon : PanPoints, rate : MoonRates]

\* The closure handed to find_event_end_time and the call's other arguments.
ElemSearch(elem, eph) ==
    [start_utc |-> 0, max_hours |-> PanHorizon, step |-> PanStep,
     refine |-> PanRefine,
     P |-> [elem |-> elem, eph |-> eph,
            target |-> ElemTarget(elem,
                         Quantity(elem, sun_moon_sidereal_longitudes(eph, 0)))]]

\* return idx, end_time
index_and_end(elem, eph) ==
    [idx |-> ElemIndex(elem, Quantity(elem, sun_moon_sidereal_longitudes(eph, 0))),
     ends_at |-> find_event_end_time(ElemSearch(elem, eph))]

tithi_index_and_end(eph) == index_and_end("tithi", eph)

nakshatra_index_and_end(eph) == index_and_end("nakshatra", eph)

yoga_index_and_end(eph) == index_and_end("yoga", eph)

karana_index_and_end(eph) == index_and_end("karana", eph)

\* NAMES[idx - 1]: IndexError past the end of the list
NameAt(list, idx) == IF idx - 1 < Len(list) THEN list[idx] ELSE "IndexError"

NoElem == [idx |-> 0, ends_at |-> 0]

NoElems == [e \in Elements |-> NoElem]

NoNames == [e \in Elements |-> ""]

PanIdle ==
    /\ pin = [sun |-> 0, moon |-> 0, rate |-> 0]
    /\ ppc = "idle"
    /\ elems = NoElems
    /\ names = NoNames

PanInit ==
    /\ pin \in Ephemerides
    /\ ppc = "tithi"
    /\ elems = NoElems
    /\ names = NoNames

\* One of the four calls of calc_panchanga, in their order.
ElementStep(elem, result, next) ==
    /\ ppc = elem
    /\ elems' = [elems EXCEPT ![elem] = result]
    /\ ppc' = next
    /\ UNCHANGED <<pin, names>>
    /\ UNCHANGED <<reqVars, findVars, dashaVars, segVars, ascVars, timeVars, karVars>>

TithiIndexAndEnd == ElementStep("tithi", tithi_index_and_end(pin), "nakshatra")

NakshatraIndexAndEnd ==
    ElementStep("nakshatra", nakshatra_index_and_end(pin), "yoga")

YogaIndexAndEnd == ElementStep("yoga", yoga_index_and_end(pin), "karana")

KaranaIndexAndEnd == ElementStep("karana", karana_index_and_end(pin), "payload")

\* payload = {... "tithi": {"name": TITHI_NAMES[t_idx-1], ...}, ...}
PayloadNames ==
    [e \in Elements |->
        CASE e = "tithi" -> NameAt(TITHI_NAMES, elems[e].idx)
          [] e = "nakshatra" -> NameAt(NAK_NAMES, elems[e].idx)
          [] e = "yoga" -> NameAt(YOGA_NAMES, elems[e].idx)
          [] e = "karana" -> karana_name_by_index(elems[e].idx)]

Raised(n) == n \in {"IndexError", KaranaRaises}

PanchangaPayload ==
    /\ ppc = "payload"
    /\ names' = PayloadNames
    /\ ppc' = IF \E e \in Elements : Raised(PayloadNames[e]) THEN "raised" ELSE "done"
    /\ UNCHANGED <<pin, elems>>
    /\ UNCHANGED <<reqVars, findVars, dashaVars, segVars, ascVars, timeVars, karVars>>

PanNext ==
    \/ TithiIndexAndEnd
    \/ NakshatraIndexAndEnd
    \/ YogaIndexAndEnd
    \/ KaranaIndexAndEnd
    \/ PanchangaPayload

-----------------------------------------------------------------------------
Init == ReqInit /\ FindIdle /\ DashaIdle /\ SegIdle /\ AscIdle /\ TimeIdle /\ KarIdle /\ PanIdle

Next == ReqNext /\ UNCHANGED <<findVars, dashaVars, segVars, ascVars, timeVars, karVars, panVars>>

Spec == Init /\ [][Next]_vars

FindSpecInit ==
    FindInit /\ ReqInit /\ DashaIdle /\ SegIdle /\ AscIdle /\ TimeIdle /\ KarIdle /\ PanIdle

FindSpec == FindSpecInit /\ [][FindNext]_vars

\* The call runs to its return: no step of it waits on anything.
FindFairSpec == FindSpec /\ WF_vars(FindNext)

DashaSpecInit ==
    DashaInit /\ ReqInit /\ FindIdle /\ SegIdle /\ AscIdle /\ TimeIdle /\ KarIdle /\ PanIdle

DashaSpec == DashaSpecInit /\ [][DashaNext]_vars

SegSpecInit ==
    SegInit /\ ReqInit /\ FindIdle /\ DashaIdle /\ AscIdle /\ TimeIdle /\ KarIdle /\ PanIdle

SegSpec == SegSpecInit /\ [][SegNext]_vars

AscSpecInit ==
    AscInit /\ ReqInit /\ FindIdle /\ DashaIdle /\ SegIdle /\ TimeIdle /\ KarIdle /\ PanIdle

AscSpec == AscSpecInit /\ [][AscNext]_vars

TimeSpecInit ==
    TimeInit /\ ReqInit /\ FindIdle /\ DashaIdle /\ SegIdle /\ AscIdle /\ KarIdle /\ PanIdle

TimeSpec == TimeSpecInit /\ [][TimeNext]_vars

KarSpecInit ==
    KarInit /\ ReqInit /\ FindIdle /\ DashaIdle /\ SegIdle /\ AscIdle /\ TimeIdle /\ PanIdle

KarSpec == KarSpecInit /\ [][KarNext]_vars

PanSpecInit ==
    PanInit /\ ReqInit /\ FindIdle /\ DashaIdle /\ SegIdle /\ AscIdle /\ TimeIdle
    /\ KarIdle

PanSpec == PanSpecInit /\ [][PanNext]_vars

-----------------------------------------------------------------------------
\* C1: every sidereal query made for a request runs while the process-wide
\* sidereal mode is the ayanamsha that request selected, under any
\* interleaving of the concurrently handled requests.
C1_QueriesUnderOwnAyanamsha ==
    \A w \in Workers : seen[w] \subseteq {req[w].ayanamsha}

-----------------------------------------------------------------------------
(* Properties of find_event_end_time, under FindSpec and FindFairSpec. *)

Monotone(P) == P.a = P.b

NeverTrue(P) == Monotone(P) /\ P.c = Never

\* False before T = P.c and true from T on, T inside the horizon.
CrossesInHorizon(f) ==
    /\ Monotone(f.P)
    /\ f.start_utc <= f.P.c
    /\ f.P.c <= HorizonEnd(f)

C3_NeverTrueReturnsHorizon ==
    (fpc = "done" /\ NeverTrue(fin.P)) => hi = HorizonEnd(fin)

\* C4: no predicate with a real false-to-true crossing yields the result
\* that a never-true predicate yields for the same arguments, so the caller
\* can tell the crossing-not-found case from the value it is given.
C4_NotFoundDistinguishable ==
    (fpc = "done" /\ Monotone(fin.P) /\ fin.P.c # Never) =>
        hi # find_event_end_time([fin EXCEPT !.P.c = Never])

-----------------------------------------------------------------------------
(* Properties of the Vimshottari engine, under DashaSpec. *)

\* The children start at the parent's start, each starts where the previous
\* one ends, none ends before it starts, and the last ends at the parent's end.
Partitions(children, parent) ==
    /\ Len(children) = 9
    /\ children[1].start = parent.start
    /\ \A i \in 1..(Len(children) - 1) : children[i + 1].start = children[i].end
    /\ \A i \in 1..Len(children) : children[i].start <= children[i].end
    /\ children[Len(children)].end = parent.end

\* C6: the 9 children of subdivide_antar and of subdivide_pratyantar exactly
\* and contiguously partition their parent, at every level of the tree, for
\* very short parents too.
C6_ChildrenPartitionParent ==
    /\ dpc \in {"antar", "prati"} => Partitions(antars, maha[selM])
    /\ dpc = "prati" => Partitions(pratis, antars[selA])

Contiguous(list) == \A i \in 1..(Len(list) - 1) : list[i + 1].start = list[i].end

\* C7: the Mahadasha list is contiguous from the birth instant and ends
\* exactly horizon_years years after birth, never later, for every Moon
\* fraction and every horizon.
C7_ScheduleFillsHorizon ==
    dpc # "start" =>
        /\ maha[1].start = din.birth
        /\ Contiguous(maha)
        /\ maha[Len(maha)].end = din.birth + din.horizon_years * YearTicks

Duration(p) == p.end - p.start

\* The lord after `lord` in the fixed cyclic order.
NextLord(lord) == DASHA_ORDER_9[(LordIndex(lord) % 9) + 1]

\* C8: the list starts with the lord of the Moon's nakshatra (index n gives
\* entry (n-1) mod 9 of the fixed order), its first period lasts weight x
\* (1 - fraction elapsed) years, the lords follow the fixed cyclic order and
\* every period between the first and the last has its full weight; the
\* weights sum to 120; with the Moon at the start of Ashwini and the default
\* horizon the list is Ketu for 7 years, Venus for 20, Sun for 6, and so on.
C8_SequenceFromMoonLord ==
    dpc # "start" =>
        LET n == din.moon \div FracDen + 1
            k == din.moon % FracDen
        IN  /\ maha[1].period = DASHA_ORDER_9[((n - 1) % 9) + 1]
            /\ maha[1].start = din.birth
            /\ Duration(maha[1]) =
                   DivRoundHalfEven(DASHA_YEARS[maha[1].period] * (FracDen - k) * YearTicks,
                                    FracDen)
            /\ \A i \in 2..Len(maha) : maha[i].period = NextLord(maha[i - 1].period)
            /\ \A i \in 2..(Len(maha) - 1) :
                   Duration(maha[i]) = DASHA_YEARS[maha[i].period] * YearTicks
            /\ din.horizon_years = DefaultHorizon =>
                   /\ Len(maha) >= 9
                   /\ \A i \in 2..9 : Duration(maha[i]) = DASHA_YEARS[maha[i].period] * YearTicks
            /\ 7 + 20 + 6 + 10 + 7 + 18 + 16 + 19 + 17 = DefaultHorizon
            /\ (din.moon = 0 /\ din.horizon_years = DefaultHorizon) =>
                   /\ maha[1] = Period("Ketu", din.birth, din.birth + 7 * YearTicks)
                   /\ maha[2].period = "Venus" /\ Duration(maha[2]) = 20 * YearTicks
                   /\ maha[3].period = "Sun" /\ Duration(maha[3]) = 6 * YearTicks

C8_Witness ==
    /\ dpc = "maha"
    /\ din.moon = 0
    /\ din.horizon_years = DefaultHorizon
    /\ Len(maha) = 9
    /\ maha[9].period = "Mercury"

-----------------------------------------------------------------------------
(* Properties of day_segments, under SegSpec. *)

SegsContiguous ==
    /\ Len(parts) = 8
    /\ parts[1].start = sin.sunrise
    /\ \A i \in 1..7 : parts[i + 1].start = parts[i].end

SegsEqual == \A i \in 1..8 : Duration(parts[i]) = Duration(parts[1])

\* C9 as stated: the 8 segments exactly tile [sunrise, sunset): contiguous
\* from sunrise, of equal duration, the last ending exactly at sunset, also
\* when the daylight duration is not a multiple of 8 ticks.
C9_SegmentsTileExactly ==
    spc = "done" =>
        /\ SegsContiguous
        /\ SegsEqual
        /\ parts[8].end = sin.sunset

\* C9 as amended: the 8 segments are contiguous from sunrise and of equal
\* duration, the daylight duration / 8 rounded to the nearest tick (ties to
\* even); the last ends at sunrise + 8 x that, which is sunset exactly when
\* the daylight duration is a multiple of 8 ticks and is otherwise within 4
\* ticks of sunset, before or after it.
C9_SegmentsTileWithinRounding ==
    spc = "done" =>
        LET d == sin.sunset - sin.sunrise IN
        /\ SegsContiguous
        /\ SegsEqual
        /\ 2 * Duration(parts[1]) * 8 >= 2 * d - 8
        /\ 2 * Duration(parts[1]) * 8 <= 2 * d + 8
        /\ parts[8].end - sin.sunset <= 4
        /\ sin.sunset - parts[8].end <= 4
        /\ (parts[8].end = sin.sunset) <=> (d % 8 = 0)
        /\ spans.rahukalam = parts[RAHU_IDX[sin.weekday]]

C9_Witness ==
    /\ spc = "done"
    /\ (sin.sunset - sin.sunrise) % 8 # 0
    /\ parts[8].end > sin.sunset
    /\ Duration(parts[1]) > 0

-----------------------------------------------------------------------------
(* Properties of the ascendant cross-check, under AscSpec. *)

Min(x, y) == IF x <= y THEN x ELSE y

\* min(|a1 - a2|, 360 - |a1 - a2|)
CircularDistance(a1, a2) == Min(Abs(a1 - a2), Circle - Abs(a1 - a2))

\* The parts of C10 that do not concern the rounding of the reported delta.
AscChoice ==
    LET dist == CircularDistance(ain.asc_sid_1, ain.asc_sid_2)
    IN  /\ chart.kind = "ok" <=> (ain.latlon_ok /\ ain.time_ok)
        /\ chart.kind = "ok" =>
              /\ 0 <= dist /\ dist <= HalfCircle
              /\ chart.lagna.method \in {"sidereal_flag", "tropical_minus_ayanamsha"}
              /\ dist <= Tolerance =>
                     /\ chart.lagna.method = "sidereal_flag"
                     /\ chart.lagna.lon = ain.asc_sid_1
              /\ dist > Tolerance =>
                     /\ chart.lagna.method = "tropical_minus_ayanamsha"
                     /\ chart.lagna.lon = ain.asc_sid_2

-----------------------------------------------------------------------------
\* A clock time in one of the accepted notations.
ValidClockString(s) ==
    /\ s.mm < 60
    /\ s.ss < 60
    /\ \/ s.form = "plain" /\ s.nparts \in {2, 3} /\ s.hh < 24
       \/ s.form = "ampm" /\ s.hh \in 1..12

\* C11: parse_time_24_or_ampm returns a triple only for a valid HH:MM,
\* HH:MM:SS or h:MM[:SS] AM/PM clock time, and the triple is then in range
\* (0 <= hour < 24, 0 <= minute < 60, 0 <= second < 60); every other string,
\* a 12-hour string with its hour outside 1..12 among them, is rejected.
C11_InvalidTimeRejected ==
    tpc \in {"build", "done"} =>
        /\ ValidClockString(tin.tob)
        /\ DatetimeAccepts(parsed)

\* The hour of the day a 12-hour time names.
IsPM(marker) == marker \in {"PM", "pm", "pM"}

Hour24(h, marker) ==
    IF h = 12 THEN (IF IsPM(marker) THEN 12 ELSE 0)
    ELSE IF IsPM(marker) THEN h + 12 ELSE h

\* The 24-hour strings HH:MM:SS and, without seconds to tell, HH:MM.
Equivalent24(s) ==
    {[form |-> "plain", hh |-> Hour24(s.hh, s.marker), mm |-> s.mm,
      has_ss |-> TRUE, ss |-> s.ss, marker |-> "", nparts |-> 3]}
    \cup
    IF s.ss = 0
      THEN {[form |-> "plain", hh |-> Hour24(s.hh, s.marker), mm |-> s.mm,
             has_ss |-> FALSE, ss |-> 0, marker |-> "", nparts |-> 2]}
      ELSE {}

\* C12: for a 12-hour time h:MM[:SS] with h in 1..12 and either marker in
\* any letter case, local_to_utc returns an instant, the same one as for the
\* equivalent 24-hour strings with the same date and timezone (12 AM is hour
\* 0, 12 PM hour 12, h PM hour h + 12; omitted seconds are 0).
C12_TwelveHourEqualsTwentyFour ==
    (tpc \in {"done", "raised"} /\ tin.tob.form = "ampm" /\ ValidClockString(tin.tob)) =>
        /\ tpc = "done"
        /\ utc.ok
        /\ utc.at = tin.day * 86400 + Hour24(tin.tob.hh, tin.tob.marker) * 3600
                      + tin.tob.mm * 60 + tin.tob.ss - tin.tz
        /\ \A e \in Equivalent24(tin.tob) :
              local_to_utc([tin EXCEPT !.tob = e]) = utc

\* "4:20 PM" in a zone five and a half hours ahead of UTC is 10:50:00 UTC.
C12_Witness ==
    /\ tpc = "done"
    /\ tin.tob.form = "ampm" /\ tin.tob.hh = 4 /\ tin.tob.mm = 20
    /\ ~tin.tob.has_ss /\ tin.tob.marker = "PM"
    /\ tin.day = 0 /\ tin.tz = 19800
    /\ utc = [ok |-> TRUE, at |-> 39000]

\* The name after n in the movable block, going round.
NextMovable(n) ==
    LET i == CHOOSE k \in 1..7 : KARANA_MOVABLE[k] = n
    IN  KARANA_MOVABLE[(i % 7) + 1]

\* C14: karana_name_by_index gives Kimstughna for 1; for 2..57 the seven
\* movable names in order, going round, from Bava at 2 to Vishti at 57;
\* Shakuni, Chatushpada, Naga for 58, 59, 60; and raises for any other index.
C14_KaranaTable ==
    kpc = "done" =>
        /\ kin = 1 => kname = "Kimstughna"
        /\ kin = 2 => kname = "Bava"
        /\ kin = 57 => kname = "Vishti"
        /\ kin \in 2..57 => kname \in {KARANA_MOVABLE[k] : k \in 1..7}
        /\ kin \in 2..56 => karana_name_by_index(kin + 1) = NextMovable(kname)
        /\ kin = 58 => kname = "Shakuni"
        /\ kin = 59 => kname = "Chatushpada"
        /\ kin = 60 => kname = "Naga"
        /\ kin \notin 1..60 <=> kname = KaranaRaises

C14_Witness ==
    /\ kpc = "done"
    /\ kin = 57
    /\ kname = "Vishti"

\* A calc_dasha request for a method that is not implemented.
Unimplemented(w) == req[w].ep = "calc_dasha" /\ req[w].method # "Vimshottari"

\* C15: calc_dasha with a method other than "Vimshottari" returns the
\* not-implemented error and nothing else, having made no ephemeris query
\* and no change of the shared sidereal mode; with "Vimshottari" it never
\* returns that error.
C15_NotImplementedBeforeEphemeris ==
    /\ [](\A w \in Workers :
            /\ Unimplemented(w) =>
                  /\ pc[w] \in {"da_method", "done"}
                  /\ seen[w] = {}
                  /\ pc[w] = "done" => resp[w] = "error"
            /\ (req[w].ep = "calc_dasha" /\ ~Unimplemented(w)) => resp[w] # "error")
    /\ [][\A w \in Workers :
            (Unimplemented(w) /\ pc'[w] # pc[w]) =>
                sidMode' = sidMode /\ seen'[w] = seen[w]]_vars

\* A request for "Yogini" has been refused while another request, for the
\* Raman ayanamsha, has the shared mode set.
C15_Witness ==
    \E w \in Workers :
        /\ req[w].ep = "calc_dasha" /\ req[w].method = "Yogini"
        /\ pc[w] = "done" /\ resp[w] = "error"
        /\ sidMode = "Raman"

\* The coarse samples start_utc + k * step up to the horizon at which the
\* predicate is true.
TrueSamples(f) ==
    {x \in f.start_utc..HorizonEnd(f) :
        /\ (x - f.start_utc) % f.step = 0
        /\ predicate_crosses(f.P, x)}

FirstTrueSample(f) == CHOOSE x \in TrueSamples(f) : \A y \in TrueSamples(f) : x <= y

\* C17: for any predicate, monotonic or not, that is true at some coarse
\* sample within the horizon, find_event_end_time returns an instant at
\* which the predicate is true, not before start_utc and not after the first
\* coarse sample at which it is true; it returns start_utc itself when the
\* predicate is true there.
C17_ReturnsTrueInstant ==
    (fpc = "done" /\ TrueSamples(fin) # {}) =>
        /\ predicate_crosses(fin.P, hi)
        /\ fin.start_utc <= hi
        /\ hi <= FirstTrueSample(fin)
        /\ predicate_crosses(fin.P, fin.start_utc) => hi = fin.start_utc
        /\ hi = find_event_end_time(fin)

\* A predicate true, then false, then true again, whose first true stretch
\* no coarse sample meets: the scan stops at a sample of the second stretch
\* and the bisection ends inside the first.
C17_Witness ==
    /\ fpc = "done"
    /\ ~Monotone(fin.P)
    /\ fin.P.c # Never
    /\ TrueSamples(fin) # {}
    /\ FirstTrueSample(fin) >= fin.P.c
    /\ fin.start_utc < hi
    /\ hi < fin.P.b

SectorCount(elem) ==
    CASE elem = "tithi" -> 30
      [] elem = "nakshatra" -> 27
      [] elem = "yoga" -> 27
      [] elem = "karana" -> 60

\* C13: for Sun and Moon longitudes in [0, 360) the four indices lie in
\* 1..30, 1..27, 1..27 and 1..60, and no name lookup of calc_panchanga
\* raises.
C13_IndicesInRange ==
    /\ pin.sun < Circle360 /\ pin.moon < Circle360
    /\ \A e \in Elements :
          elems[e] # NoElem => elems[e].idx \in 1..SectorCount(e)
    /\ ppc # "raised"

\* The element's index x ticks after the reference instant.
IndexAt(elem, eph, x) ==
    ElemIndex(elem, Quantity(elem, sun_moon_sidereal_longitudes(eph, x)))

\* The instants of the horizon at which the index is no longer the one at
\* the reference instant, and the first of them.
Changed(elem, eph) ==
    {x \in 1..PanHorizon : IndexAt(elem, eph, x) # IndexAt(elem, eph, 0)}

FirstChange(elem, eph) ==
    CHOOSE x \in Changed(elem, eph) : \A y \in Changed(elem, eph) : x <= y

\* C16: for each element whose quantity, increasing, reaches the next
\* sector boundary within the horizon (the last sector's boundary at the
\* 0/360 seam included), the crossing predicate is false at the reference
\* instant and the end returned is within the resolution of the first
\* instant at which the index has changed.
C16_EndAtIndexChange ==
    \A e \in Elements :
        (elems[e] # NoElem /\ Changed(e, pin) # {}) =>
            /\ ~crosses(ElemSearch(e, pin).P, 0)
            /\ Abs(elems[e].ends_at - FirstChange(e, pin)) <= PanRefine

=============================================================================
